---- MODULE Spec2Model ----
(***************************************************************************)
(* A model of java-archiver.py: the GameJoltArchiver class, process_game   *)
(* and main.                                                               *)
(*                                                                         *)
(* Python values are tagged records, so that None, strings, integers and   *)
(* dicts can be told apart: a str is a sequence of atoms (each atom stands *)
(* for a fixed run of characters), a dict is a function from its keys.     *)
(***************************************************************************)
EXTENDS Integers, Sequences, FiniteSets, TLC

VARIABLES
    pc,          \* position of the run inside main / process_game
    args,        \* the parsed command line (argparse namespace)
    game_id,     \* main's / process_game's game_id
    game_info,   \* process_game's game_info (the overview payload)
    idx,         \* number of builds of game_info['builds'] already iterated
    file_details,\* process_game's file_details of the build being processed
    success,     \* process_game's success, jar_path of the last download_file
    jar_path,
    jar_files,   \* process_game's jar_files (the position of each entry's build)
    java_class_info, \* process_game's java_class_info (likewise)
    fs,          \* the file system: path -> what wrote the file
    dirs,        \* directories created by os.makedirs
    requests,    \* HTTP requests issued so far, in order
    printed,     \* notices printed by process_game / main
    exit_code,   \* the process's exit status, -1 while it runs
    cur,         \* what happened to the build at hand (observation only)
    jar_seen,    \* some build resolved to a .jar file name (observation only)
    url,         \* extract_game_id_from_url: argument
    url_result,  \* extract_game_id_from_url: returned value
    calls,       \* direct calls of download_file / create_cheerpj_html so far
    call_result  \* the value returned (or the exception raised) by each call

vars == <<pc, args, game_id, game_info, idx, file_details, success, jar_path,
          jar_files, java_class_info, fs, dirs, requests, printed, exit_code,
          cur, jar_seen, url, url_result, calls, call_result>>

runVars == <<pc, args, game_id, game_info, idx, file_details, success, jar_path,
             jar_files, java_class_info, requests, printed, exit_code, cur,
             jar_seen>>
fsVars == <<fs, dirs>>
urlVars == <<url, url_result>>
callVars == <<calls, call_result>>

-----------------------------------------------------------------------------
(* Bounds of the model *)

MaxSegs == 4         \* path segments of a generated URL
MaxBuilds == 2       \* builds in an overview payload
MaxCalls == 2        \* direct calls in the function-level specifications

-----------------------------------------------------------------------------
(* Python values *)

PyNone == [type |-> "NoneType"]
\* a variable that holds no value yet, or a key that is absent
Unset == [type |-> "unset"]
PyInt(n) == [type |-> "int", val |-> n]
PyStr(s) == [type |-> "str", val |-> s]
PyBool(b) == [type |-> "bool", val |-> b]
PyDict(d) == [type |-> "dict", val |-> d]
PyList(l) == [type |-> "list", val |-> l]
EmptyDict == PyDict(<<>>)

IsNone(v) == v.type = "NoneType"
IsStr(v) == v.type = "str"
IsDict(v) == v.type = "dict"

\* Python truthiness: bool(v)
Truthy(v) ==
    CASE v.type = "NoneType" -> FALSE
      [] v.type = "int" -> v.val # 0
      [] v.type = "bool" -> v.val
      [] v.type = "str" -> Len(v.val) > 0
      [] v.type = "list" -> Len(v.val) > 0
      [] v.type = "dict" -> DOMAIN v.val # {}

\* k in d, for a dict d
HasKey(d, k) == k \in DOMAIN d.val
\* d.get(k, default)
Get(d, k, default) == IF HasKey(d, k) THEN d.val[k] ELSE default
\* d[k] = v
Put(d, k, v) == PyDict((k :> v) @@ d.val)

-----------------------------------------------------------------------------
(* Strings as sequences of atoms *)

Digits == {"0", "7"}

RECURSIVE IntOf(_)
\* int(s) for a string of digits
IntOf(s) ==
    IF Len(s) = 0 THEN 0
    ELSE 10 * IntOf(SubSeq(s, 1, Len(s) - 1))
         + (IF s[Len(s)] = "7" THEN 7 ELSE 0)

\* str.isdigit()
IsDigit(s) == Len(s) > 0 /\ \A i \in 1..Len(s) : s[i] \in Digits

\* s.endswith(suffix)
EndsWith(s, suffix) ==
    /\ Len(suffix) <= Len(s)
    /\ SubSeq(s, Len(s) - Len(suffix) + 1, Len(s)) = suffix

RECURSIVE StripSlashes(_)
\* s.strip('/')
StripSlashes(s) ==
    IF Len(s) = 0 THEN s
    ELSE IF s[1] = "/" THEN StripSlashes(Tail(s))
    ELSE IF s[Len(s)] = "/" THEN StripSlashes(SubSeq(s, 1, Len(s) - 1))
    ELSE s

RECURSIVE SplitSlash(_)
\* s.split('/')
SplitSlash(s) ==
    IF \A i \in 1..Len(s) : s[i] # "/" THEN <<s>>
    ELSE LET p == CHOOSE i \in 1..Len(s) :
                      s[i] = "/" /\ \A j \in 1..(i - 1) : s[j] # "/"
         IN <<SubSeq(s, 1, p - 1)>> \o SplitSlash(SubSeq(s, p + 1, Len(s)))

\* the longest run of digits of s that starts at position p
DigitRun(s, p) ==
    LET e == CHOOSE k \in (p - 1)..Len(s) :
                 /\ \A j \in p..k : s[j] \in Digits
                 /\ (k = Len(s) \/ s[k + 1] \notin Digits)
    IN SubSeq(s, p, e)

\* re.search(r'/games/[^/]+/(\d+)/?', s): the positions p where a match starts;
\* q is the slash that ends [^/]+
GameIdMatchAt(s, p, q) ==
    /\ p + 3 < q /\ q < Len(s)
    /\ s[p] = "/" /\ s[p + 1] = "games" /\ s[p + 2] = "/"
    /\ \A j \in (p + 3)..(q - 1) : s[j] # "/"
    /\ s[q] = "/"
    /\ s[q + 1] \in Digits

GameIdMatches(s) ==
    {p \in 1..Len(s) : \E q \in 1..Len(s) : GameIdMatchAt(s, p, q)}

\* group(1) of the leftmost match
GameIdGroup(s) ==
    LET p == CHOOSE m \in GameIdMatches(s) : \A n \in GameIdMatches(s) : m <= n
        q == CHOOSE k \in 1..Len(s) : GameIdMatchAt(s, p, k)
    IN DigitRun(s, q + 1)

-----------------------------------------------------------------------------
(* extract_game_id_from_url *)

\* urlparse(url): a URL is [scheme, host, path]; without "//" there is no
\* netloc and the host text is part of the path
Netloc(u) == IF u.scheme THEN u.host ELSE <<>>
UrlPath(u) == IF u.scheme THEN u.path ELSE u.host \o u.path

ServiceDomain == <<"gamejolt", ".", "com">>

extract_game_id_from_url(u) ==
    IF ~EndsWith(Netloc(u), ServiceDomain) THEN PyNone
    ELSE LET path == SplitSlash(StripSlashes(UrlPath(u)))
         IN IF Len(path) >= 3 /\ path[1] = <<"games">>
            THEN IF IsDigit(path[Len(path)])
                 THEN PyInt(IntOf(path[Len(path)]))
                 ELSE IF GameIdMatches(UrlPath(u)) # {}
                      THEN PyInt(IntOf(GameIdGroup(UrlPath(u))))
                      ELSE PyNone
            ELSE PyNone

-----------------------------------------------------------------------------
(* Paths and the file system *)

\* os.path.join(a, b)
Join(a, b) ==
    IF Len(b) > 0 /\ b[1] = "/" THEN b
    ELSE IF Len(a) = 0 \/ a[Len(a)] = "/" THEN a \o b
    ELSE a \o <<"/">> \o b

\* os.path.dirname(p)
Dirname(p) ==
    IF \A i \in 1..Len(p) : p[i] # "/" THEN <<>>
    ELSE LET last == CHOOSE i \in 1..Len(p) :
                         p[i] = "/" /\ \A j \in (i + 1)..Len(p) : p[j] # "/"
         IN IF last = 1 THEN <<"/">> ELSE SubSeq(p, 1, last - 1)

\* a directory path without its trailing slash
NormDir(p) ==
    IF Len(p) > 1 /\ p[Len(p)] = "/" THEN SubSeq(p, 1, Len(p) - 1) ELSE p

\* os.path.exists(p)
Exists(fsv, dirsv, p) ==
    \/ p \in DOMAIN fsv
    \/ Len(p) > 0 /\ NormDir(p) \in dirsv

\* os.makedirs(d, exist_ok=True); the empty path is the working directory
Makedirs(dirsv, d) == IF Len(d) = 0 THEN dirsv ELSE dirsv \cup {NormDir(d)}

\* c.isalnum() or c in " -_", for the atoms of a title
KeptInTitle(c) == c \notin {"!", "/", ".", ":"}

RECURSIVE StripSpaces(_)
\* s.strip()
StripSpaces(s) ==
    IF Len(s) = 0 THEN s
    ELSE IF s[1] = " " THEN StripSpaces(Tail(s))
    ELSE IF s[Len(s)] = " " THEN StripSpaces(SubSeq(s, 1, Len(s) - 1))
    ELSE s

\* the safe_title of create_game_directory
SafeTitle(title) ==
    LET mapped == [i \in 1..Len(title) |->
                      IF KeptInTitle(title[i]) THEN title[i] ELSE "_"]
        stripped == StripSpaces(mapped)
    IN [i \in 1..Len(stripped) |-> IF stripped[i] = " " THEN "_" ELSE stripped[i]]

\* create_game_directory: [raised, dirs, val]; a title that is no str cannot
\* be iterated
create_game_directory(download_dir, dirsv, game_title) ==
    IF ~IsStr(game_title)
    THEN [raised |-> TRUE, dirs |-> dirsv, val |-> <<>>]
    ELSE LET game_dir == Join(download_dir, SafeTitle(game_title.val))
         IN [raised |-> FALSE, dirs |-> Makedirs(dirsv, game_dir), val |-> game_dir]

-----------------------------------------------------------------------------
(* download_file *)

DownloadError == PyStr(<<"Error downloading file">>)

\* what the transfer meets: the GET fails (transport error or non-2xx status),
\* open() of the destination fails, the body breaks off while streaming,
\* os.makedirs fails, or all goes well
NetOutcomes == {"ok", "http_error", "open_fails", "stream_fails", "mkdir_fails"}

DlResult(fsv, dirsv, reqs, ok, val) ==
    [fs |-> fsv, dirs |-> dirsv, reqs |-> reqs, raised |-> FALSE,
     ok |-> ok, val |-> val]

\* DownloadTo without the test of line 301: every call fetches
DownloadTo_NoExistsCheck(fsv, dirsv, u, final, net) ==
    IF ~IsStr(u) \/ net \in {"http_error", "open_fails"}
    THEN DlResult(fsv, dirsv, IF IsStr(u) THEN <<"GET file">> ELSE <<>>, FALSE,
                  DownloadError)
    ELSE DlResult((final :> [by |-> "download_file",
                             complete |-> (net # "stream_fails")]) @@ fsv,
                  dirsv, <<"GET file">>, net # "stream_fails",
                  IF net = "stream_fails" THEN DownloadError ELSE PyStr(final))

\* DownloadTo with the body streamed outside the try block: a failure while
\* streaming leaves download_file as an exception
DownloadTo_StreamRaises(fsv, dirsv, u, final, net) ==
    IF Exists(fsv, dirsv, final)
    THEN DlResult(fsv, dirsv, <<>>, TRUE, PyStr(final))
    ELSE IF ~IsStr(u)
    THEN DlResult(fsv, dirsv, <<>>, FALSE, DownloadError)
    ELSE IF net \in {"http_error", "open_fails"}
    THEN DlResult(fsv, dirsv, <<"GET file">>, FALSE, DownloadError)
    ELSE IF net = "stream_fails"
    THEN [DlResult((final :> [by |-> "download_file", complete |-> FALSE]) @@ fsv,
                   dirsv, <<"GET file">>, FALSE, DownloadError)
          EXCEPT !.raised = TRUE]
    ELSE DlResult((final :> [by |-> "download_file", complete |-> TRUE]) @@ fsv,
                  dirsv, <<"GET file">>, TRUE, PyStr(final))

\* DownloadTo with an except clause that removes what a broken transfer
\* wrote
DownloadTo_RemovesPartial(fsv, dirsv, u, final, net) ==
    IF Exists(fsv, dirsv, final)
    THEN DlResult(fsv, dirsv, <<>>, TRUE, PyStr(final))
    ELSE IF ~IsStr(u)
    THEN DlResult(fsv, dirsv, <<>>, FALSE, DownloadError)
    ELSE IF net \in {"http_error", "open_fails", "stream_fails"}
    THEN DlResult(fsv, dirsv, <<"GET file">>, FALSE, DownloadError)
    ELSE DlResult((final :> [by |-> "download_file", complete |-> TRUE]) @@ fsv,
                  dirsv, <<"GET file">>, TRUE, PyStr(final))

\* lines 300-329: the destination is known
DownloadTo(fsv, dirsv, u, final, net) ==
    IF Exists(fsv, dirsv, final)
    THEN DlResult(fsv, dirsv, <<>>, TRUE, PyStr(final))
    ELSE IF ~IsStr(u)
    THEN DlResult(fsv, dirsv, <<>>, FALSE, DownloadError)
    ELSE IF net = "http_error"
    THEN DlResult(fsv, dirsv, <<"GET file">>, FALSE, DownloadError)
    ELSE IF net = "open_fails"
    THEN DlResult(fsv, dirsv, <<"GET file">>, FALSE, DownloadError)
    ELSE IF net = "stream_fails"
    THEN DlResult((final :> [by |-> "download_file", complete |-> FALSE]) @@ fsv,
                  dirsv, <<"GET file">>, FALSE, DownloadError)
    ELSE DlResult((final :> [by |-> "download_file", complete |-> TRUE]) @@ fsv,
                  dirsv, <<"GET file">>, TRUE, PyStr(final))

\* lines 291-298: final_output_path, None when computing it raises (a title
\* or a file name that is no str)
FinalOutputPath(download_dir, filename, game_title, output_path) ==
    IF Truthy(output_path) THEN output_path
    ELSE IF ~IsStr(game_title) \/ ~IsStr(filename) THEN PyNone
    ELSE PyStr(Join(Join(download_dir, SafeTitle(game_title.val)), filename.val))

\* the directory that lines 293 and 297 create
TargetDir(download_dir, game_title, output_path) ==
    IF Truthy(output_path) THEN Dirname(output_path.val)
    ELSE IF IsStr(game_title) THEN Join(download_dir, SafeTitle(game_title.val))
    ELSE <<>>

\* os.makedirs can fail only for a directory that does not exist yet
MkdirFails(dirsv, d, net) ==
    net = "mkdir_fails" /\ Len(d) > 0 /\ NormDir(d) \notin dirsv

\* download_file(url, filename, game_title, output_path) of an archiver whose
\* download_dir is given: [fs, dirs, reqs, raised, ok, val]
download_file(download_dir, fsv, dirsv, u, filename, game_title, output_path, net) ==
    LET d == TargetDir(download_dir, game_title, output_path)
        final == FinalOutputPath(download_dir, filename, game_title, output_path)
    IN IF MkdirFails(dirsv, d, net)
       THEN DlResult(fsv, dirsv, <<>>, FALSE, DownloadError)
       ELSE IF IsNone(final)
       THEN DlResult(fsv, Makedirs(dirsv, d), <<>>, FALSE, DownloadError)
       ELSE DownloadTo(fsv, Makedirs(dirsv, d), u, final.val, net)

-----------------------------------------------------------------------------
(* create_cheerpj_html *)

CheerpjMissing == PyStr(<<"Missing Java class name or filename in file details">>)
CheerpjError == PyStr(<<"Error creating CheerpJ HTML file">>)

DefaultWidth == 640
DefaultHeight == 480

\* create_cheerpj_html(file_details, output_dir): [fs, raised, ok, val];
\* io tells whether open() of the page succeeds
create_cheerpj_html(fsv, fd, output_dir, io) ==
    IF ~HasKey(fd, "java_class_name") \/ ~HasKey(fd, "filename")
    THEN [fs |-> fsv, raised |-> FALSE, ok |-> FALSE, val |-> CheerpjMissing]
    ELSE IF ~IsStr(output_dir) \/ io = "open_fails"
    THEN [fs |-> fsv, raised |-> FALSE, ok |-> FALSE, val |-> CheerpjError]
    ELSE LET html_filename == Join(output_dir.val, <<"cheerpj.html">>)
             page == [by |-> "create_cheerpj_html",
                      archive |-> Get(fd, "filename", PyNone),
                      code |-> Get(fd, "java_class_name", PyNone),
                      width |-> Get(fd, "width", PyInt(DefaultWidth)),
                      height |-> Get(fd, "height", PyInt(DefaultHeight))]
         IN [fs |-> (html_filename :> page) @@ fsv, raised |-> FALSE,
             ok |-> TRUE, val |-> PyStr(html_filename)]

-----------------------------------------------------------------------------
(* get_game_info *)

\* an HTTP exchange ends in an exception (transport error, non-2xx status,
\* a body that is no JSON) or in a JSON value
HttpError == [kind |-> "error"]
Json(d) == [kind |-> "json", data |-> d]

\* get_game_info's return value for a response; "payload" in data raises for
\* a JSON null, which the except clause turns into None
get_game_info(resp) ==
    IF resp.kind = "error" THEN PyNone
    ELSE IF ~IsDict(resp.data) THEN PyNone
    ELSE IF HasKey(resp.data, "payload") THEN resp.data.val["payload"]
    ELSE PyNone

-----------------------------------------------------------------------------
(* get_build_download_url *)

RECURSIVE ParseQs(_)
\* parse_qs(query): the query is a list of <<name, value>> pairs; pairs with
\* a blank value are dropped and the values of a name are kept in order
ParseQs(q) ==
    IF Len(q) = 0 THEN <<>>
    ELSE LET rest == ParseQs(Tail(q))
             k == Head(q)[1]
             v == Head(q)[2]
         IN IF Len(v) = 0 THEN rest
            ELSE IF k \in DOMAIN rest THEN (k :> (<<v>> \o rest[k])) @@ rest
            ELSE (k :> <<v>>) @@ rest

\* extract_token_from_url(url), url = [host, path, query]
extract_token_from_url(u) ==
    LET query_params == ParseQs(u.query)
    IN IF "token" \in DOMAIN query_params
       THEN PyStr(query_params["token"][1])
       ELSE IF u.host = <<"gamejolt", ".", "net">> /\ Len(u.path) = 0
                 /\ "token" \in DOMAIN ParseQs(u.query)
            THEN PyStr(ParseQs(u.query)["token"][1])
            ELSE PyNone

\* the token of the POST response, None when the response holds no
\* payload.url or the URL holds no token
TokenOf(post) ==
    IF post.kind = "error" \/ ~IsDict(post.data) THEN PyNone
    ELSE IF ~HasKey(post.data, "payload") THEN PyNone
    ELSE IF ~IsDict(post.data.val["payload"]) THEN PyNone
    ELSE IF ~HasKey(post.data.val["payload"], "url") THEN PyNone
    ELSE extract_token_from_url(post.data.val["payload"].val["url"])

\* get_build_download_url with the GET of line 204 outside "if token": the
\* gameserver is asked whatever the POST answered
get_build_download_url_GetsWithoutToken(post, get) ==
    [reqs |-> <<"POST get-download-url", "GET gameserver">>,
     tokens |-> <<TokenOf(post)>>,
     val |-> IF get.kind = "error" \/ ~IsDict(get.data) THEN PyNone
             ELSE Get(get.data, "payload", EmptyDict)]

\* get_build_download_url: [reqs, tokens, val] for the responses to the POST
\* and to the GET that follows it; tokens are the tokens that the GETs carry
\* (GAMESERVER_API_URL.format(token), line 204)
get_build_download_url(post, get) ==
    IF ~Truthy(TokenOf(post))
    THEN [reqs |-> <<"POST get-download-url">>, tokens |-> <<>>, val |-> PyNone]
    ELSE [reqs |-> <<"POST get-download-url", "GET gameserver">>,
          tokens |-> <<TokenOf(post)>>,
          val |-> IF get.kind = "error" \/ ~IsDict(get.data) THEN PyNone
                  ELSE Get(get.data, "payload", EmptyDict)]

-----------------------------------------------------------------------------
(* get_file_details *)

\* the platforms list of lines 248-253
Platforms(build) ==
    (IF Truthy(Get(build, "os_windows", PyNone)) THEN <<"Windows">> ELSE <<>>)
    \o (IF Truthy(Get(build, "os_mac", PyNone)) THEN <<"Mac">> ELSE <<>>)
    \o (IF Truthy(Get(build, "os_linux", PyNone)) THEN <<"Linux">> ELSE <<>>)
    \o (IF Truthy(Get(build, "os_other", PyNone)) THEN <<"Other">> ELSE <<>>)

Opt(present, k, v) == IF present THEN (k :> v) ELSE <<>>

\* get_file_details raises when "build" or "primary_file" is no dict:
\* "primary_file" in None, None.get(...)
FileDetailsRaises(di) ==
    /\ HasKey(di, "build")
    /\ \/ ~IsDict(di.val["build"])
       \/ /\ HasKey(di.val["build"], "primary_file")
          /\ ~IsDict(di.val["build"].val["primary_file"])

\* the result dict of get_file_details, when it does not raise
FileDetailsOf(di) ==
    LET hasBuild == HasKey(di, "build")
        build == Get(di, "build", EmptyDict)
        hasFile == hasBuild /\ HasKey(build, "primary_file")
        primary_file == Get(build, "primary_file", EmptyDict)
        hasGame == HasKey(di, "game")
        game == Get(di, "game", EmptyDict)
        java == Truthy(Get(di, "javaArchive", PyNone))
    IN PyDict(
           Opt(HasKey(di, "url"), "download_url", Get(di, "url", PyNone))
        @@ Opt(hasFile, "filename", Get(primary_file, "filename", PyNone))
        @@ Opt(hasFile, "filesize", Get(primary_file, "filesize", PyNone))
        @@ Opt(hasBuild, "build_id", Get(build, "id", PyNone))
        @@ Opt(hasBuild, "type", Get(build, "type", PyNone))
        @@ Opt(hasBuild, "added_on", Get(build, "added_on", PyNone))
        @@ Opt(hasBuild, "updated_on", Get(build, "updated_on", PyNone))
        @@ Opt(hasBuild, "platforms", PyList(Platforms(build)))
        @@ Opt(hasBuild /\ Truthy(Get(build, "embed_width", PyNone)),
               "width", Get(build, "embed_width", PyNone))
        @@ Opt(hasBuild /\ Truthy(Get(build, "embed_height", PyNone)),
               "height", Get(build, "embed_height", PyNone))
        @@ Opt(hasGame, "game_id", Get(game, "id", PyNone))
        @@ Opt(hasGame, "title", Get(game, "title", PyNone))
        @@ Opt(java, "java_archive", Get(di, "javaArchive", PyNone))
        @@ Opt(java, "java_codebase", Get(di, "javaCodebase", PyNone))
        @@ Opt(java /\ hasBuild /\ Truthy(Get(build, "java_class_name", PyNone)),
               "java_class_name", Get(build, "java_class_name", PyNone)))

get_file_details(di) ==
    IF FileDetailsRaises(di) THEN [raised |-> TRUE, val |-> EmptyDict]
    ELSE [raised |-> FALSE, val |-> FileDetailsOf(di)]

-----------------------------------------------------------------------------
(* What the service may answer *)

Title == PyStr(<<"My", " ", "Game", "!">>)

FullMicrodata ==
    PyDict([name |-> Title, url |-> PyStr(<<"u">>), description |-> PyStr(<<"d">>)])

Stats == [profileCount |-> PyInt(1), downloadCount |-> PyInt(1), playCount |-> PyInt(1)]

\* a build of the overview payload with every field, and one with its id
\* alone
FullBuild ==
    PyDict([id |-> PyInt(1), type |-> PyStr(<<"applet">>), added_on |-> PyInt(1),
            os_windows |-> PyBool(TRUE),
            primary_file |-> PyDict([filename |-> PyStr(<<"game", ".jar">>),
                                     filesize |-> PyStr(<<"7">>)])])
BareBuild == PyDict([id |-> PyInt(1)])

\* the build lists: up to MaxBuilds full builds, the last one possibly bare
BuildLists ==
    UNION {{[i \in 1..n |-> FullBuild],
            [i \in 1..n |-> IF i = n THEN BareBuild ELSE FullBuild]} :
              n \in 0..MaxBuilds}

\* the overview payloads: null, empty, without microdata, without the
\* counters, without builds, and with each build list
Payloads ==
    {PyNone, EmptyDict,
     PyDict(Stats),
     PyDict([microdata |-> FullMicrodata]),
     PyDict([microdata |-> FullMicrodata] @@ Stats)}
    \cup {PyDict([microdata |-> FullMicrodata, builds |-> PyList(bl)] @@ Stats) :
            bl \in BuildLists}

OverviewResponses ==
    {HttpError, Json(PyNone), Json(EmptyDict)}
    \cup {Json(PyDict([payload |-> p])) : p \in Payloads}

InitialUrls ==
    {[host |-> <<"gamejolt", ".", "net">>, path |-> <<>>, query |-> q] :
        q \in {<<>>, << <<"token", <<"T">>>> >>, << <<"token", <<>>>> >>,
               << <<"x", <<"1">>>>, <<"token", <<"T">>>>, <<"token", <<"U">>>> >>}}

PostResponses ==
    {HttpError, Json(EmptyDict), Json(PyDict([payload |-> EmptyDict]))}
    \cup {Json(PyDict([payload |-> PyDict([url |-> u])])) : u \in InitialUrls}

JarName == PyStr(<<"game", ".jar">>)
UpperJarName == PyStr(<<"GAME", ".JAR">>)
ZipName == PyStr(<<"game", ".zip">>)

\* a gameserver payload: u, whether it holds "url"; b, its "build" (Unset
\* when absent); j, whether javaArchive is set
Descriptor(u, b, j) ==
    PyDict(Opt(u, "url", PyStr(<<"cdn">>))
           @@ Opt(b # Unset, "build", b)
           @@ Opt(j, "javaArchive", PyBool(TRUE))
           @@ Opt(j, "javaCodebase", PyStr(<<"cb">>)))

\* the "build" of a gameserver payload: pf, its primary_file (Unset when
\* absent); cls, whether it names a Java class; w, whether it has a width
DescriptorBuild(pf, cls, w) ==
    PyDict([id |-> PyInt(1), type |-> PyStr(<<"applet">>),
            os_windows |-> PyBool(TRUE), os_linux |-> PyBool(TRUE)]
           @@ Opt(pf # Unset, "primary_file", pf)
           @@ Opt(cls, "java_class_name", PyStr(<<"Main">>))
           @@ Opt(w, "embed_width", PyInt(800)))

\* a primary_file with the given filename (Unset: without one)
PrimaryFile(f) ==
    PyDict(Opt(f # Unset, "filename", f) @@ [filesize |-> PyInt(7)])

\* the payloads of the gameserver response
Descriptors ==
    {Descriptor(TRUE, Unset, FALSE),
     Descriptor(TRUE, PyNone, FALSE),
     Descriptor(TRUE, DescriptorBuild(Unset, TRUE, FALSE), TRUE),
     Descriptor(TRUE, DescriptorBuild(PyNone, FALSE, FALSE), FALSE),
     Descriptor(TRUE, DescriptorBuild(PrimaryFile(Unset), TRUE, FALSE), TRUE),
     Descriptor(TRUE, DescriptorBuild(PrimaryFile(PyNone), FALSE, FALSE), FALSE),
     Descriptor(FALSE, DescriptorBuild(PrimaryFile(JarName), FALSE, FALSE), FALSE),
     Descriptor(TRUE, DescriptorBuild(PrimaryFile(ZipName), FALSE, FALSE), FALSE),
     Descriptor(TRUE, DescriptorBuild(PrimaryFile(ZipName), TRUE, FALSE), TRUE)}
    \cup {Descriptor(TRUE, DescriptorBuild(PrimaryFile(JarName), cls, FALSE), j) :
             cls \in BOOLEAN, j \in BOOLEAN}
    \cup {Descriptor(TRUE, DescriptorBuild(PrimaryFile(UpperJarName), cls, cls), cls) :
             cls \in BOOLEAN}

GetResponses ==
    {HttpError, Json(EmptyDict), Json(PyDict([payload |-> PyNone]))}
    \cup {Json(PyDict([payload |-> d])) : d \in Descriptors}

-----------------------------------------------------------------------------
(* URLs given to extract_game_id_from_url *)

Segs == {<<"games">>, <<"s">>, <<"7">>, <<"0">>, <<"7", "0">>, <<"7", "s">>}

Hosts == {<<"gamejolt", ".", "com">>,
          <<"www", ".", "gamejolt", ".", "com">>,
          <<"not", "gamejolt", ".", "com">>,
          <<"gamejolt", ".", "net">>,
          <<"gamejolt", ".", "com", ":443">>}

SegLists == UNION {[1..n -> Segs] : n \in 0..MaxSegs}

RECURSIVE PathOf(_)
\* the path text "/seg1/seg2/..." of a list of segments
PathOf(segs) ==
    IF Len(segs) = 0 THEN <<>>
    ELSE <<"/">> \o Head(segs) \o PathOf(Tail(segs))

Urls == {[scheme |-> sc, host |-> h, path |-> PathOf(sl) \o tr] :
            sc \in BOOLEAN, h \in Hosts, sl \in SegLists, tr \in {<<>>, <<"/">>}}

IdleRun ==
    /\ pc = "idle"
    /\ args = Unset
    /\ game_id = Unset
    /\ game_info = Unset
    /\ idx = 0
    /\ file_details = Unset
    /\ success = FALSE
    /\ jar_path = Unset
    /\ jar_files = <<>>
    /\ java_class_info = <<>>
    /\ requests = <<>>
    /\ printed = {}
    /\ exit_code = -1
    /\ cur = Unset
    /\ jar_seen = FALSE

InitUrl ==
    /\ IdleRun
    /\ fs = <<>> /\ dirs = {}
    /\ url \in Urls
    /\ url_result = Unset
    /\ calls = <<>> /\ call_result = <<>>

ExtractGameId ==
    /\ url_result = Unset
    /\ url_result' = extract_game_id_from_url(url)
    /\ UNCHANGED <<runVars, fsVars, url, callVars>>

NextUrl == ExtractGameId

SpecUrl == InitUrl /\ [][NextUrl]_vars

\* the host name of a netloc, without its port
Hostname(netloc) ==
    IF Len(netloc) > 0 /\ netloc[Len(netloc)] = ":443"
    THEN SubSeq(netloc, 1, Len(netloc) - 1) ELSE netloc

IsServiceHost(netloc) ==
    \/ Hostname(netloc) = ServiceDomain
    \/ EndsWith(Hostname(netloc), <<".">> \o ServiceDomain)

\* the URL is /games/<slug>/<digits> on the service's host
IsServiceGameUrl(u) ==
    LET segs == SplitSlash(StripSlashes(u.path))
    IN /\ u.scheme
       /\ IsServiceHost(u.host)
       /\ Len(segs) = 3
       /\ segs[1] = <<"games">>
       /\ Len(segs[2]) > 0
       /\ IsDigit(segs[3])

\* C9: for every service URL of shape /games/<slug>/<digits> the extraction
\* returns <digits> as an integer, and for any other host (neither the
\* service's domain nor a subdomain of it) or path shape it returns None.
C9_ExtractsOnlyServiceGameUrls ==
    url_result # Unset =>
        IF IsServiceGameUrl(url)
        THEN url_result = PyInt(IntOf(SplitSlash(StripSlashes(url.path))[3]))
        ELSE url_result = PyNone

-----------------------------------------------------------------------------
(* main and process_game *)

\* the download_dir of the archiver that process_game constructs (line 473
\* passes none, so it is the default of line 19)
ProcessDownloadDir == <<"downloads">>

\* str.lower() on the atoms of a file name
Lower(s) ==
    [i \in 1..Len(s) |->
        CASE s[i] = ".JAR" -> ".jar"
          [] s[i] = "GAME" -> "game"
          [] OTHER -> s[i]]

\* filename.lower().endswith('.jar')
IsJarName(filename) == EndsWith(Lower(filename), <<".jar">>)

CliUrls ==
    {[scheme |-> TRUE, host |-> <<"gamejolt", ".", "com">>,
      path |-> <<"/", "games", "/", "s", "/", "7">>],
     [scheme |-> TRUE, host |-> <<"gamejolt", ".", "com">>,
      path |-> <<"/", "games", "/", "s", "/", "0">>],
     [scheme |-> TRUE, host |-> <<"gamejolt", ".", "net">>,
      path |-> <<"/", "games", "/", "s", "/", "7">>]}

\* how the game is named on the command line (exactly one of --game-id and
\* --url is given) and the options that only change what is printed or
\* where files go
Invocations ==
    {[game_id |-> PyInt(5), url |-> PyNone, verbose |-> v, java_class |-> j,
      download_dir |-> <<"downloads">>] : v \in BOOLEAN, j \in BOOLEAN}
    \cup {[game_id |-> PyInt(0), url |-> PyNone, verbose |-> FALSE,
           java_class |-> FALSE, download_dir |-> <<"downloads">>]}
    \cup {[game_id |-> PyNone, url |-> u, verbose |-> FALSE, java_class |-> FALSE,
           download_dir |-> <<"store">>] : u \in CliUrls}

\* the argparse namespace
ArgSets ==
    {[game_id |-> i.game_id, url |-> i.url, output |-> o,
      download_dir |-> i.download_dir, verbose |-> i.verbose,
      java_class |-> i.java_class, no_download |-> n, cheerpj |-> c] :
        i \in Invocations,
        o \in {PyNone, PyStr(<<"out", "/", "x.jar">>)},
        n \in BOOLEAN, c \in BOOLEAN}

Init ==
    /\ pc = "resolving-id"
    /\ args \in ArgSets
    /\ game_id = Unset
    /\ game_info = Unset
    /\ idx = 0
    /\ file_details = Unset
    /\ success = FALSE
    /\ jar_path = Unset
    /\ jar_files = <<>>
    /\ java_class_info = <<>>
    /\ fs = <<>>
    /\ dirs = {}
    /\ requests = <<>>
    /\ printed = {}
    /\ exit_code = -1
    /\ cur = Unset
    /\ jar_seen = FALSE
    /\ url = Unset /\ url_result = Unset
    /\ calls = <<>> /\ call_result = <<>>

\* an uncaught exception ends the interpreter with status 1
Crash ==
    /\ pc' = "crashed"
    /\ exit_code' = 1

\* main, lines 598-607: determine the game id
main ==
    /\ pc = "resolving-id"
    /\ IF Truthy(args.game_id)
       THEN /\ game_id' = args.game_id
            /\ pc' = "fetching-metadata"
            /\ UNCHANGED <<dirs, printed, exit_code>>
       ELSE IF args.url # PyNone
       THEN LET id == extract_game_id_from_url(args.url)
            IN /\ game_id' = id
               /\ dirs' = Makedirs(dirs, args.download_dir)
               /\ IF ~Truthy(id)
                  THEN /\ printed' = printed \cup {"Could not extract game ID from URL"}
                       /\ pc' = "exited"
                       /\ exit_code' = 1
                  ELSE /\ pc' = "fetching-metadata"
                       /\ UNCHANGED <<printed, exit_code>>
       ELSE /\ game_id' = PyNone
            /\ pc' = "fetching-metadata"
            /\ UNCHANGED <<dirs, printed, exit_code>>
    /\ UNCHANGED <<args, game_info, idx, file_details, success, jar_path,
                   jar_files, java_class_info, fs, requests, cur, jar_seen,
                   urlVars, callVars>>

\* lines 481-492 raise a KeyError when the payload lacks what they print
HeaderRaises(info, verbose) ==
    \/ ~HasKey(info, "microdata")
    \/ ~HasKey(info.val["microdata"], "name")
    \/ ~HasKey(info.val["microdata"], "url")
    \/ /\ verbose
       /\ \/ ~HasKey(info.val["microdata"], "description")
          \/ ~HasKey(info, "profileCount")
          \/ ~HasKey(info, "downloadCount")
          \/ ~HasKey(info, "playCount")

\* process_game, lines 473-495 and 572-573: construct the archiver, fetch the
\* overview and branch on its builds
FetchGameInfo ==
    /\ pc = "fetching-metadata"
    /\ \E resp \in OverviewResponses :
          LET info == get_game_info(resp)
          IN /\ requests' = Append(requests, "GET overview")
             /\ dirs' = Makedirs(dirs, ProcessDownloadDir)
             /\ game_info' = info
             /\ IF ~Truthy(info)
                THEN /\ printed' = printed \cup {"Failed to retrieve game"}
                     /\ pc' = "done"
                     /\ exit_code' = 0
                ELSE IF HeaderRaises(info, args.verbose)
                THEN Crash /\ UNCHANGED printed
                ELSE IF Truthy(Get(info, "builds", PyNone))
                THEN /\ pc' = "iterating-builds"
                     /\ UNCHANGED <<printed, exit_code>>
                ELSE /\ pc' = "no-builds"
                     /\ UNCHANGED <<printed, exit_code>>
    /\ UNCHANGED <<args, game_id, idx, file_details, success, jar_path,
                   jar_files, java_class_info, fs, cur, jar_seen, urlVars, callVars>>

\* lines 572-573
NoBuilds ==
    /\ pc = "no-builds"
    /\ printed' = printed \cup {"No builds found for this game."}
    /\ pc' = "done"
    /\ exit_code' = 0
    /\ UNCHANGED <<args, game_id, game_info, idx, file_details, success, jar_path,
                   jar_files, java_class_info, fs, dirs, requests, cur, jar_seen,
                   urlVars, callVars>>

Builds == game_info.val["builds"].val
GameTitle == game_info.val["microdata"].val["name"]

\* lines 500-512 raise a KeyError when verbose and the build lacks a field
VerboseRaises(build) ==
    \/ ~HasKey(build, "id")
    \/ /\ Truthy(Get(build, "primary_file", PyNone))
       /\ \/ ~HasKey(build.val["primary_file"], "filename")
          \/ ~HasKey(build.val["primary_file"], "filesize")
    \/ ~HasKey(build, "type")
    \/ ~HasKey(build, "added_on")

\* what cur records of the build at hand
Seen(resolved, jar, cls) ==
    [resolved |-> resolved, jar |-> jar, class |-> cls, crashed |-> FALSE,
     transfer |-> FALSE, ok |-> FALSE, applet |-> FALSE]

\* the record of a build whose iteration raised
Raised(resolved) == [Seen(resolved, FALSE, FALSE) EXCEPT !.crashed = TRUE]

\* what cur records of the resolution of the build at hand: whether
\* get_build_download_url was called, the token extracted from the POST's
\* payload.url, and the requests issued with the tokens of the GETs
Resolution(c, called, post, r) ==
    c @@ [called |-> called,
          token |-> IF called THEN TokenOf(post) ELSE PyNone,
          reqs |-> IF called THEN r.reqs ELSE <<>>,
          gets |-> IF called THEN r.tokens ELSE <<>>]

\* the resolved file name is a str that ends in .jar, whatever its case
ResolvedJar(fd) ==
    /\ HasKey(fd, "filename")
    /\ IsStr(fd.val["filename"])
    /\ IsJarName(fd.val["filename"].val)

\* lines 532-534: filename = file_details.get('filename', '');
\* download and filename.lower().endswith('.jar') raises for a filename
\* that is no str, unless download is off
JarCheckRaises(fd, download) ==
    download /\ ~IsStr(Get(fd, "filename", PyStr(<<>>)))

\* the .jar test without lower()
IsJarFile_CaseSensitive(fd, download) ==
    download /\ EndsWith(Get(fd, "filename", PyStr(<<>>)).val, <<".jar">>)

\* the .jar test without "download and"
IsJarFile_IgnoresDownload(fd, download) == ResolvedJar(fd)

IsJarFile(fd, download) ==
    download /\ IsJarName(Get(fd, "filename", PyStr(<<>>)).val)

\* line 520: the build's Java class is noted for the report
NotesJavaClass(fd, print_java_class, create_cheerpj) ==
    HasKey(fd, "java_class_name") /\ (print_java_class \/ create_cheerpj)

\* the iteration of the build at hand raises before its transfer: the verbose
\* print, build['id'], get_file_details or the .jar test
IterationRaises(build, verbose, download, r) ==
    \/ verbose /\ VerboseRaises(build)
    \/ ~HasKey(build, "id")
    \/ /\ Truthy(r.val)
       /\ \/ get_file_details(r.val).raised
          \/ JarCheckRaises(get_file_details(r.val).val, download)

\* process_game, lines 499-543 for the next build, given the responses to
\* its two resolution requests
ResolveWith(post, get) ==
    LET build == Builds[idx + 1]
        download == ~args.no_download
        early == (args.verbose /\ VerboseRaises(build)) \/ ~HasKey(build, "id")
        r == get_build_download_url(post, get)
        fd == get_file_details(r.val).val
    IN /\ requests' = IF early THEN requests ELSE requests \o r.reqs
       /\ IF IterationRaises(build, args.verbose, download, r)
          THEN /\ Crash
               /\ cur' = Resolution(Raised(~early), ~early, post, r)
               /\ UNCHANGED <<idx, file_details, jar_files, java_class_info,
                              dirs, jar_seen>>
          ELSE IF ~Truthy(r.val)
          THEN /\ cur' = Resolution(Seen(FALSE, FALSE, FALSE), TRUE, post, r)
               /\ idx' = idx + 1
               /\ UNCHANGED <<pc, exit_code, file_details, jar_files,
                              java_class_info, dirs, jar_seen>>
          ELSE /\ cur' = Resolution(Seen(TRUE, ResolvedJar(fd),
                                           HasKey(fd, "java_class_name")),
                                      TRUE, post, r)
               /\ jar_seen' = (jar_seen \/ ResolvedJar(fd))
               /\ java_class_info' =
                      IF NotesJavaClass(fd, args.java_class, args.cheerpj)
                      THEN Append(java_class_info, idx + 1)
                      ELSE java_class_info
               /\ IF IsJarFile(fd, download)
                  THEN /\ jar_files' = Append(jar_files, idx + 1)
                       /\ file_details' = fd
                       /\ dirs' = IF Truthy(args.output) THEN dirs
                                  ELSE create_game_directory(
                                         ProcessDownloadDir, dirs, GameTitle).dirs
                       /\ pc' = "downloading"
                       /\ UNCHANGED <<idx, exit_code>>
                  ELSE /\ idx' = idx + 1
                       /\ UNCHANGED <<pc, exit_code, file_details, jar_files, dirs>>

ResolveBuild ==
    /\ pc = "iterating-builds"
    /\ idx < Len(Builds)
    /\ \E post \in PostResponses :
          IF Truthy(TokenOf(post))
          THEN \E get \in GetResponses : ResolveWith(post, get)
          ELSE ResolveWith(post, HttpError)
    /\ UNCHANGED <<args, game_id, game_info, success, jar_path, fs, printed,
                   urlVars, callVars>>

\* the iteration of a build is over: its file_details, success and jar_path
\* are dead, since the next iteration assigns each of them before it reads it
EndOfIteration ==
    /\ file_details' = Unset
    /\ success' = FALSE
    /\ jar_path' = Unset

\* process_game, lines 545-553: transfer the JAR of the build at hand
DownloadBuild ==
    /\ pc = "downloading"
    /\ \E net \in NetOutcomes :
          LET r == download_file(ProcessDownloadDir, fs, dirs,
                                 Get(file_details, "download_url", PyNone),
                                 file_details.val["filename"], GameTitle,
                                 args.output, net)
          IN /\ fs' = r.fs
             /\ dirs' = r.dirs
             /\ requests' = requests \o r.reqs
             /\ IF r.raised
                THEN /\ Crash
                     /\ cur' = [cur EXCEPT !.transfer = TRUE, !.crashed = TRUE]
                     /\ UNCHANGED <<success, jar_path, idx, file_details>>
                ELSE /\ cur' = [cur EXCEPT !.transfer = TRUE, !.ok = r.ok]
                     /\ IF args.cheerpj /\ r.ok /\ HasKey(file_details, "java_class_name")
                        THEN /\ pc' = "emitting"
                             /\ success' = r.ok
                             /\ jar_path' = r.val
                             /\ UNCHANGED <<idx, file_details>>
                        ELSE /\ pc' = "iterating-builds"
                             /\ idx' = idx + 1
                             /\ EndOfIteration
                     /\ UNCHANGED exit_code
    /\ UNCHANGED <<args, game_id, game_info, jar_files,
                   java_class_info, printed, jar_seen, urlVars, callVars>>

\* process_game, lines 554-557: the applet page of the build at hand
EmitCheerpj ==
    /\ pc = "emitting"
    /\ \E io \in {"ok", "open_fails"} :
          LET r == create_cheerpj_html(fs, Put(file_details, "title", GameTitle),
                                       PyStr(Dirname(jar_path.val)), io)
          IN /\ fs' = r.fs
             /\ cur' = [cur EXCEPT !.applet = TRUE]
             /\ IF r.raised
                THEN Crash /\ UNCHANGED <<idx, file_details, success, jar_path>>
                ELSE /\ pc' = "iterating-builds"
                     /\ idx' = idx + 1
                     /\ EndOfIteration
                     /\ UNCHANGED exit_code
    /\ UNCHANGED <<args, game_id, game_info,
                   jar_files, java_class_info, dirs, requests, printed, jar_seen,
                   urlVars, callVars>>

\* line 570 without "and download"
PrintsNoJarNotice_IgnoresDownload(jf, download) == Len(jf) = 0

\* line 570: not jar_files and download
PrintsNoJarNotice(jf, download) == Len(jf) = 0 /\ download

\* process_game, lines 559-571: the reports after the last build
FinishBuilds ==
    /\ pc = "iterating-builds"
    /\ idx = Len(Builds)
    /\ printed' = printed
          \cup (IF args.java_class /\ Len(java_class_info) > 0
                THEN {"Java Class Information:"} ELSE {})
          \cup (IF PrintsNoJarNotice(jar_files, ~args.no_download)
                THEN {"No JAR files found for this game."} ELSE {})
    /\ pc' = "done"
    /\ exit_code' = 0
    /\ UNCHANGED <<args, game_id, game_info, idx, file_details, success, jar_path,
                   jar_files, java_class_info, fs, dirs, requests, cur, jar_seen,
                   urlVars, callVars>>

Next ==
    \/ main
    \/ FetchGameInfo
    \/ NoBuilds
    \/ ResolveBuild
    \/ DownloadBuild
    \/ EmitCheerpj
    \/ FinishBuilds

Spec == Init /\ [][Next]_vars

\* the state of the game's run, as the orchestrator's state machine names it
State == IF pc \in {"downloading", "emitting"} THEN "iterating-builds" ELSE pc

-----------------------------------------------------------------------------
(* download_file, called directly *)

OutputPath == <<"out", "/", "x.jar">>

\* the file systems a call may start from: empty, or holding a file at the
\* explicit output path (left there by an earlier run)
InitialFs ==
    {<<>>, (OutputPath :> [by |-> "download_file", complete |-> TRUE])}

InitDownload ==
    /\ IdleRun
    /\ fs \in InitialFs
    /\ dirs = {Dirname(p) : p \in DOMAIN fs}
    /\ url = Unset /\ url_result = Unset
    /\ calls = <<>> /\ call_result = <<>>

CallDownloadFile ==
    /\ Len(calls) < MaxCalls
    /\ \E u \in {PyNone, PyStr(<<"cdn">>)},
          filename \in {PyNone, JarName, PyStr(<<"/", "abs", ".jar">>)},
          game_title \in {PyNone, Title},
          output_path \in {PyNone, PyStr(OutputPath)},
          net \in NetOutcomes :
          LET r == download_file(ProcessDownloadDir, fs, dirs, u, filename,
                                 game_title, output_path, net)
          IN /\ fs' = r.fs
             /\ dirs' = r.dirs
             /\ requests' = requests \o r.reqs
             /\ calls' = Append(calls,
                   [fn |-> "download_file",
                    dest |-> FinalOutputPath(ProcessDownloadDir, filename,
                                             game_title, output_path),
                    net |-> net])
             /\ call_result' = Append(call_result,
                   [raised |-> r.raised, ok |-> r.ok, val |-> r.val,
                    reqs |-> r.reqs])
    /\ UNCHANGED <<pc, args, game_id, game_info, idx, file_details, success,
                   jar_path, jar_files, java_class_info, printed, exit_code,
                   cur, jar_seen, urlVars>>

NextDownload == CallDownloadFile

SpecDownload == InitDownload /\ [][NextDownload]_vars

-----------------------------------------------------------------------------
(* create_cheerpj_html, called directly *)

InitCheerpj ==
    /\ IdleRun
    /\ fs \in InitialFs
    /\ dirs = {<<"out">>}
    /\ url = Unset /\ url_result = Unset
    /\ calls = <<>> /\ call_result = <<>>

\* the file_details of a call: each of filename, java_class_name and width
\* is absent (Unset) or has the given value
CheerpjDetails(filename, cls, w) ==
    PyDict(Opt(filename # Unset, "filename", filename)
           @@ Opt(cls # Unset, "java_class_name", cls)
           @@ Opt(w # Unset, "width", w))

CallCreateCheerpjHtml ==
    /\ Len(calls) = 0
    /\ \E filename \in {Unset, PyNone, PyStr(<<>>), JarName},
          cls \in {Unset, PyNone, PyStr(<<>>), PyStr(<<"Main">>)},
          w \in {Unset, PyInt(800)},
          output_dir \in {PyStr(<<"out">>), PyStr(<<"pages">>)},
          io \in {"ok", "open_fails"} :
          LET fd == CheerpjDetails(filename, cls, w)
              r == create_cheerpj_html(fs, fd, output_dir, io)
          IN /\ fs' = r.fs
             /\ calls' = Append(calls,
                   [fn |-> "create_cheerpj_html", file_details |-> fd,
                    output_dir |-> output_dir, io |-> io])
             /\ call_result' = Append(call_result,
                   [raised |-> r.raised, ok |-> r.ok, val |-> r.val,
                    written |-> {q \in DOMAIN r.fs :
                                    q \notin DOMAIN fs \/ r.fs[q] # fs[q]}])
    /\ UNCHANGED <<runVars, dirs, urlVars>>

NextCheerpj == CallCreateCheerpjHtml

SpecCheerpj == InitCheerpj /\ [][NextCheerpj]_vars

-----------------------------------------------------------------------------
(* Properties of a run of main (Spec) *)

\* the number of requests of one kind issued so far
Count(kind) == Cardinality({i \in DOMAIN requests : requests[i] = kind})

\* the run has entered the loop over the builds
Iterating == cur # Unset

NoJarNotice == "No JAR files found for this game."

\* C1: the failure of one build never aborts the loop over the builds: a
\* run that entered the loop ends normally, after a resolution request for
\* every build of the list.
C1_BuildFailureNeverAbortsLoop ==
    (Iterating /\ pc \in {"done", "crashed"}) =>
        /\ pc = "done"
        /\ Count("POST get-download-url") = Len(Builds)

\* the file names that the modelled service resolves builds to
ResolvedNames == {JarName.val, UpperJarName.val, ZipName.val}

\* C2: every file written by a transfer is at the --output path when one is
\* given, and otherwise at <download-dir>/<sanitized-title>/<filename> with
\* the --download-dir value.
C2_TransfersWriteUnderDownloadDir ==
    \A p \in DOMAIN fs :
        fs[p].by = "download_file" =>
            IF Truthy(args.output) THEN p = args.output.val
            ELSE \E f \in ResolvedNames :
                    p = Join(Join(args.download_dir, SafeTitle(GameTitle.val)), f)

\* C3: the process exits with 1 exactly when the --url value cannot be
\* resolved to an identifier, and with 0 in every other run.
C3_ExitCodeOneOnlyForUnresolvableUrl ==
    exit_code # -1 =>
        (exit_code = 1 <=>
            (args.url # PyNone /\ IsNone(extract_game_id_from_url(args.url))))

C7_FetchFailureOrOrderlyRun ==
    game_info # Unset =>
        IF ~Truthy(game_info)
        THEN /\ pc = "done"
             /\ exit_code = 0
             /\ requests = <<"GET overview">>
             /\ DOMAIN fs = {}
        ELSE State \in {"no-builds", "iterating-builds", "done"}

\* C8 as stated: at the end of process_game the notice is printed exactly
\* when download was requested and no build resolved to a .jar name.
C8_NoticeIffNoJarResolved ==
    pc = "done" =>
        (NoJarNotice \in printed <=> (~args.no_download /\ ~jar_seen))

\* C8, amended: after the loop over a non-empty build list the notice is
\* printed exactly when download was requested and no build resolved to a
\* .jar name; a run that never entered the loop does not print it.
C8_NoticeIffNoJarAmongIteratedBuilds ==
    pc = "done" =>
        IF Iterating
        THEN NoJarNotice \in printed <=> (~args.no_download /\ ~jar_seen)
        ELSE NoJarNotice \notin printed

\* the notice was printed after a build resolved to a file that is no .jar
C8_Witness ==
    /\ pc = "done"
    /\ Iterating /\ cur.resolved /\ ~cur.jar
    /\ NoJarNotice \in printed

-----------------------------------------------------------------------------
(* Properties of download_file (SpecDownload) and create_cheerpj_html
   (SpecCheerpj) *)

SameDestination(i, j) ==
    /\ i < j
    /\ IsStr(calls[i].dest)
    /\ calls[i].dest = calls[j].dest

NonEmptyStr(d, k) == HasKey(d, k) /\ IsStr(d.val[k]) /\ Len(d.val[k].val) > 0

\* C5: create_cheerpj_html fails without writing when the file name or the
\* entry class is missing, null or empty, and otherwise writes exactly the
\* file cheerpj.html of the output directory.
C5_PageOnlyWithNameAndClass ==
    \A i \in DOMAIN calls :
        LET c == calls[i]
            r == call_result[i]
        IN IF NonEmptyStr(c.file_details, "filename")
              /\ NonEmptyStr(c.file_details, "java_class_name")
           THEN c.io = "ok" =>
                   /\ r.ok
                   /\ r.written = {Join(c.output_dir.val, <<"cheerpj.html">>)}
           ELSE ~r.ok /\ r.written = {}

\* C10: download_file never raises; it returns (True, destination) or
\* (False, error message), whatever its arguments and whatever fails.
C10_DownloadFileReturnsOutcome ==
    \A i \in DOMAIN calls :
        LET r == call_result[i]
        IN /\ ~r.raised
           /\ \/ r.ok /\ IsStr(calls[i].dest) /\ r.val = calls[i].dest
              \/ ~r.ok /\ r.val = DownloadError

\* a transfer broke off while streaming and the call returned the failure
C10_Witness ==
    \E i \in DOMAIN calls :
        /\ calls[i].net = "stream_fails"
        /\ call_result[i].reqs = <<"GET file">>
        /\ ~call_result[i].ok
        /\ call_result[i].val = DownloadError

\* C11: for each build, get_build_download_url issues the POST and then at
\* most one gameserver GET; the GET is issued only when a token was extracted
\* from the payload.url of the POST's response, and it carries that token,
\* once. A build without a token gets no GET, is not resolved, and the loop
\* goes on: as long as the loop runs, every build before the next one got
\* its own POST.
C11_PostThenGetOnlyWithToken ==
    /\ Iterating =>
          /\ cur.reqs \in {<<>>, <<"POST get-download-url">>,
                           <<"POST get-download-url", "GET gameserver">>}
          /\ cur.called <=> (cur.reqs # <<>>)
          /\ (\E i \in DOMAIN cur.reqs : cur.reqs[i] = "GET gameserver")
                => Truthy(cur.token)
          /\ cur.gets = IF Truthy(cur.token) THEN <<cur.token>> ELSE <<>>
          /\ (cur.called /\ ~Truthy(cur.token)) =>
                /\ ~cur.resolved /\ ~cur.crashed /\ ~cur.transfer
                /\ pc \in {"iterating-builds", "done"}
    /\ pc = "iterating-builds" =>
          /\ Count("POST get-download-url") = idx
          /\ Count("GET gameserver") <= Count("POST get-download-url")

\* a build without a token was skipped and the build after it resolved
\* through a GET that carries its token
C11_Witness ==
    /\ Iterating
    /\ Count("POST get-download-url") = 2
    /\ Count("GET gameserver") = 1
    /\ cur.gets = <<PyStr(<<"T">>)>>
    /\ cur.resolved

\* the requests of the overview and of the resolution of builds
ResolutionRequests == {"GET overview", "POST get-download-url", "GET gameserver"}

\* C12: with --no-download, whatever the other options and the build list,
\* a run starts no transfer, writes no file and no applet page, creates no
\* directory below the download directories, and issues only the overview
\* GET and, per build, the POST and at most one gameserver GET.
C12_NoDownloadWritesNothing ==
    args.no_download =>
        /\ pc \notin {"downloading", "emitting"}
        /\ DOMAIN fs = {}
        /\ dirs \subseteq {NormDir(ProcessDownloadDir), NormDir(args.download_dir)}
        /\ \A i \in DOMAIN requests : requests[i] \in ResolutionRequests
        /\ Count("GET overview") <= 1
        /\ Count("GET gameserver") <= Count("POST get-download-url")
        /\ IF Iterating
           THEN /\ ~cur.transfer /\ ~cur.applet
                /\ Count("POST get-download-url") <= Len(Builds)
           ELSE Count("POST get-download-url") = 0

\* a finished --no-download --cheerpj run whose last build resolved to a .jar
\* file with a Java class
C12_Witness ==
    /\ args.no_download /\ args.cheerpj
    /\ pc = "done"
    /\ Iterating /\ cur.resolved /\ cur.jar /\ cur.class
    /\ Count("POST get-download-url") = 2

\* call i broke off while streaming the body, after it created its
\* destination
BrokeOffStreaming(i) ==
    /\ IsStr(calls[i].dest)
    /\ calls[i].net = "stream_fails"
    /\ call_result[i].reqs = <<"GET file">>
    /\ ~call_result[i].ok

\* C13: after a call that broke off while streaming, the partly written
\* file stays at the destination, and every later call with the same
\* destination returns success with that path and issues no request.
C13_PartialFileSatisfiesLaterCalls ==
    \A i \in DOMAIN calls :
        BrokeOffStreaming(i) =>
            /\ calls[i].dest.val \in DOMAIN fs
            /\ ~fs[calls[i].dest.val].complete
            /\ \A j \in DOMAIN calls :
                  SameDestination(i, j) =>
                      /\ call_result[j].reqs = <<>>
                      /\ call_result[j].ok
                      /\ call_result[j].val = calls[i].dest

\* a call broke off while streaming and a later call had the same destination
C13_Witness ==
    \E i, j \in DOMAIN calls :
        /\ BrokeOffStreaming(i)
        /\ SameDestination(i, j)
        /\ call_result[j].ok

\* the applet page next to the explicit output path
AppletPage == Join(Dirname(args.output.val), <<"cheerpj.html">>)

\* the step is the transfer of a .jar build of a run with an explicit output
\* path, at a time when the file at that path exists
LaterTransfer ==
    /\ pc = "downloading"
    /\ Truthy(args.output)
    /\ args.output.val \in DOMAIN fs

\* C14: in a run with an explicit output path, every .jar build is
\* transferred to that one path and every applet page goes next to it; once
\* the file exists, the transfer of a later .jar build issues no request,
\* writes nothing and returns success, and the applet page of such a build
\* leaves the file as it is.
C14_OneDestinationForAllJarBuilds ==
    /\ [](Truthy(args.output) => DOMAIN fs \subseteq {args.output.val, AppletPage})
    /\ [][LaterTransfer =>
             /\ requests' = requests
             /\ fs' = fs
             /\ cur'.transfer /\ cur'.ok
             /\ pc' \in {"iterating-builds", "emitting"}]_vars
    /\ [][(pc = "emitting" /\ Truthy(args.output)) =>
             /\ args.output.val \in DOMAIN fs'
             /\ fs'[args.output.val] = fs[args.output.val]]_vars

\* the second .jar build of a run with an explicit output path is about to
\* emit its applet page over the page of the first one: the only file
\* request of the run is the first build's
C14_Witness ==
    /\ Truthy(args.output)
    /\ pc = "emitting"
    /\ idx = 1
    /\ Count("GET file") = 1
    /\ AppletPage \in DOMAIN fs
    /\ fs[AppletPage].archive # file_details.val["filename"]

====
